---- MODULE Spec2Model ----
(***************************************************************************)
(* A model of tidalapi/request.py: class Requests.                         *)
(*   basic_request  build and transmit one request, refresh an expired     *)
(*                  token and re-issue the request                         *)
(*   request        basic_request followed by raise_for_status             *)
(*   map_request    request("GET") followed by map_json                    *)
(*   map_json       unwrap the three response shapes through a parser      *)
(*   get_items      page through a collection, 100 items at a time         *)
(***************************************************************************)
EXTENDS Integers, Sequences, FiniteSets, TLC

VARIABLES
    session,    \* the Session object shared by the callers (credentials, config)
    call,       \* call[c]: the frame of caller c's top-level call
    catalog,    \* number of items the server holds for the paged collection
    mapped      \* a direct call of the class method map_json: arguments and result

vars == <<session, call, catalog, mapped>>

-----------------------------------------------------------------------------
(* Bounds of the model *)

\* Depth of basic_request's self-recursion at which the interpreter gives up
\* (RecursionError); the interpreter's own limit, scaled down.
MaxDepth == 3

-----------------------------------------------------------------------------
(* Python values *)

\* None, and a value that is present. Optional arguments and the values of a
\* params mapping are wrapped so that "is None" can be asked of them.
None == [tag |-> "None"]
Some(v) == [tag |-> "Some", v |-> v]

\* {} : a dict is a function from its keys
EmptyDict == <<>>

\* truth value of an optional dict: None and {} are falsy
Truthy(d) == d # None /\ DOMAIN d.v # {}

\* d.update(e)
Update(d, e) ==
    [k \in DOMAIN d \cup DOMAIN e |-> IF k \in DOMAIN e THEN e[k] ELSE d[k]]

\* filter(lambda item: item[1] is not None, params.items())
NotNoneMutKeepAll(p) == p

NotNone(p) == [k \in {x \in DOMAIN p : p[x] # None} |-> p[k]]

\* str.startswith on texts held as sequences of words
StartsWith(s, prefix) ==
    /\ Len(s) >= Len(prefix)
    /\ SubSeq(s, 1, Len(prefix)) = prefix

\* the literal "The token has expired."
ExpiredPrefix == <<"The", "token", "has", "expired.">>

-----------------------------------------------------------------------------
(* URLs.  A path is relative ("tracks/5"), rooted ("/v2/feed") or already a *)
(* full URL; segs are its path segments.                                    *)

ApiLocation == [kind |-> "url", host |-> "api.tidal.com", segs |-> <<"v1">>]

\* urllib.parse.urljoin(base, path), base ending in "/"
urljoinMutAlwaysAppend(base, path) ==
    [kind |-> "url", host |-> base.host, segs |-> base.segs \o path.segs]

urljoin(base, path) ==
    CASE path.kind = "url"  -> path
      [] path.kind = "root" -> [kind |-> "url", host |-> base.host, segs |-> path.segs]
      [] OTHER              -> [kind |-> "url", host |-> base.host,
                                segs |-> base.segs \o path.segs]

-----------------------------------------------------------------------------
(* Responses of the transport (requests.Response) *)

\* Response.ok
Ok(r) == r.status_code < 400

\* Response.raise_for_status() raises HTTPError
RaisesForStatus(r) == r.status_code >= 400

\* Response.json(): the decoded body, or None where the code catches
\* JSONDecodeError (body empty or not JSON)
Decodes(r) == r.body.kind = "json"

\* bool(Response.content)
HasContent(r) == r.body.kind # "empty"

JsonBody(j) == [kind |-> "json", json |-> j]
TextBody == [kind |-> "text", json |-> EmptyDict]
EmptyBody == [kind |-> "empty", json |-> EmptyDict]

Response(status, body) == [status_code |-> status, body |-> body]

\* dict.get("userMessage", "")
UserMessage(j) == IF "userMessage" \in DOMAIN j THEN j["userMessage"] ELSE <<>>

\* json_resp and json_resp.get("userMessage", "").startswith("The token has expired.")
IsExpiryMutAnyFailure(r) == TRUE

IsExpiry(r) ==
    /\ Decodes(r)
    /\ DOMAIN r.body.json # {}
    /\ StartsWith(UserMessage(r.body.json), ExpiredPrefix)

ExpiredResponse ==
    Response(401, JsonBody([status |-> 401,
                            userMessage |-> ExpiredPrefix \o <<"Please", "log", "in">>]))

\* what the transport may answer to a plain request
Responses ==
    { Response(200, JsonBody([id |-> 7])),
      Response(204, EmptyBody),
      Response(200, TextBody),
      ExpiredResponse,
      Response(401, JsonBody([status |-> 401, userMessage |-> ExpiredPrefix])),
      Response(401, JsonBody([status |-> 401,
                              userMessage |-> <<"The", "token", "has", "expired">>])),
      Response(404, JsonBody([status |-> 404])),
      Response(400, JsonBody(EmptyDict)),
      Response(500, TextBody),
      Response(502, EmptyBody) }

-----------------------------------------------------------------------------
(* What a caller may pass *)

Methods == {"GET", "POST"}

Paths ==
    { [kind |-> "rel",  host |-> "", segs |-> <<"tracks">>],
      [kind |-> "root", host |-> "", segs |-> <<"v2", "feed">>],
      [kind |-> "url",  host |-> "listen.tidal.com", segs |-> <<"v1", "pages">>] }

\* the mappings with key k absent, None or present
Entries(k, values) == {EmptyDict} \cup {[x \in {k} |-> v] : v \in {None} \cup values}

ParamDicts ==
    { Update(a, b) : a \in Entries("limit", {Some(50)}),
                     b \in Entries("filter", {Some("ALL")}) }

ParamChoices == {None} \cup {Some(d) : d \in ParamDicts}

DataChoices == {None, Some([title |-> "mix"])}

HeaderChoices ==
    { None,
      Some(EmptyDict),
      Some([accept |-> "application/json"]),
      Some([authorization |-> <<"Bearer", " ", 0>>]) }

-----------------------------------------------------------------------------
(* basic_request, lines 53-75: what is transmitted *)

\* request_params
RequestParams(s, params) ==
    LET base == [sessionId   |-> Some(s.session_id),
                 countryCode |-> Some(s.country_code),
                 limit       |-> Some(s.item_limit)]
    IN  IF Truthy(params) THEN Update(base, NotNone(params.v)) ELSE base

\* headers, after "if not headers" and the authorization assignment
RequestHeadersMutKeepPassed(s, headers) ==
    LET h == IF Truthy(headers) THEN headers.v ELSE EmptyDict
    IN  IF s.token_type # "" /\ "authorization" \notin DOMAIN h
        THEN Update(h, [authorization |-> <<s.token_type, " ", s.access_token>>])
        ELSE h

RequestHeaders(s, headers) ==
    LET h == IF Truthy(headers) THEN headers.v ELSE EmptyDict
    IN  IF s.token_type # ""
        THEN Update(h, [authorization |-> <<s.token_type, " ", s.access_token>>])
        ELSE h

-----------------------------------------------------------------------------
(* map_json, lines 153-182.  A JSON object is a function from its keys; the *)
(* value under "items" is None (null) or Some(list).  A parser is named by  *)
(* a string; its result on an object is the pair of both.                   *)

\* Bound: longest items list given to map_json directly
MaxItems == 3

\* parse(obj): a parser builds a value from the object; the parser named
\* "parse_nothing" is one that returns None
Parsed(parse, obj) ==
    IF parse = "parse_nothing" THEN None ELSE [parser |-> parse, of |-> obj]

\* session.convert_type(name, output="parse"): the session's parser for a type name
ConvertType(name) ==
    CASE name = "tracks" -> "parse_track"
      [] name = "videos" -> "parse_video"
      [] OTHER           -> "parse_other"

\* str.lower() + "s" on the type tags the service sends
LowerPlural(type) ==
    CASE type \in {"TRACK", "Track", "track"} -> "tracks"
      [] type \in {"VIDEO", "Video", "video"} -> "videos"
      [] OTHER                                -> "others"

\* what map_json gives back: status "ok" with the value returned, or the
\* exception raised; calls are the parser invocations made, json the
\* argument as the call leaves it
MapResult(status, value, calls, json) ==
    [status |-> status, value |-> value, calls |-> calls, json |-> json]

\* json_obj.get("items")
GetItemsMutFalsyIsMissing(json_obj) ==
    IF "items" \in DOMAIN json_obj /\ json_obj["items"] # None
                                   /\ Len(json_obj["items"].v) > 0
    THEN json_obj["items"] ELSE None

GetItems(json_obj) ==
    IF "items" \in DOMAIN json_obj THEN json_obj["items"] ELSE None

\* lines 163-164: for item in items: item["item"]["dateAdded"] = item["created"]
\* from element i on; KeyError where "created" or "item" is missing
RECURSIVE HoistAll(_, _)
HoistAll(items, i) ==
    IF i > Len(items) THEN [ok |-> TRUE, items |-> items]
    ELSE IF {"created", "item"} \subseteq DOMAIN items[i]
    THEN HoistAll([items EXCEPT ![i] =
                     [@ EXCEPT !["item"] =
                         Update(@, [dateAdded |-> items[i]["created"]])]], i + 1)
    ELSE [ok |-> FALSE, items |-> items]

\* lines 162-164: the hoisting is done when the first element has "created"
Hoist(items) ==
    IF "created" \in DOMAIN items[1] THEN HoistAll(items, 1)
    ELSE [ok |-> TRUE, items |-> items]

\* lines 166-179: the loop over the wrapped elements, from element i on
RECURSIVE Wrapped(_, _, _, _, _, _)
Wrapped(json, items, i, parse, sess, lists) ==
    IF i > Len(items)
    THEN MapResult("ok", lists, [k \in 1..Len(lists) |-> lists[k]], json)
    ELSE LET item == items[i]
             done == [k \in 1..Len(lists) |-> lists[k]]
         IN  IF sess # None /\ "type" \notin DOMAIN item
             THEN MapResult("KeyError", <<>>, done, json)
             ELSE LET p == IF sess # None
                           THEN Some(ConvertType(LowerPlural(item["type"])))
                           ELSE parse
                  IN  IF p = None THEN MapResult("ValueError", <<>>, done, json)
                      ELSE IF "item" \notin DOMAIN item
                      THEN MapResult("KeyError", <<>>, done, json)
                      ELSE Wrapped(json, items, i + 1, p, sess,
                                   Append(lists, Parsed(p.v, item["item"])))

\* map_json(json_obj, parse, session)
MapJson(json_obj, parse, sess) ==
    LET items == GetItems(json_obj)
    IN  IF items = None
        THEN IF parse = None
             THEN MapResult("ValueError", <<>>, <<>>, json_obj)
             ELSE MapResult("ok", Parsed(parse.v, json_obj),
                            <<Parsed(parse.v, json_obj)>>, json_obj)
        ELSE IF Len(items.v) > 0 /\ "item" \in DOMAIN items.v[1]
        THEN LET h    == Hoist(items.v)
                 json == [json_obj EXCEPT !["items"] = Some(h.items)]
             IN  IF ~h.ok THEN MapResult("KeyError", <<>>, <<>>, json)
                 ELSE Wrapped(json, h.items, 1, parse, sess, <<>>)
        ELSE IF parse = None
        THEN MapResult("ValueError", <<>>, <<>>, json_obj)
        ELSE LET out == [i \in 1..Len(items.v) |-> Parsed(parse.v, items.v[i])]
             IN  MapResult("ok", out, out, json_obj)

\* elements an items list may hold: a bare object, and wrappers around one
Wrapper(id, type) == [item |-> [id |-> id], type |-> type]
Dated(id, type, created) == [item |-> [id |-> id], type |-> type, created |-> created]

Elements ==
    { [id |-> 1],
      Wrapper(2, "TRACK"),
      Wrapper(3, "Video"),
      Dated(4, "TRACK", 40),
      Dated(5, "Video", 50),
      [item |-> [id |-> 6], created |-> 60] }

ListsOver(elements, n) == UNION { [1..k -> elements] : k \in 0..n }

JsonChoices ==
    { [id |-> 7], [id |-> 7, items |-> None] }
        \cup { [items |-> Some(l)] : l \in ListsOver(Elements, MaxItems) }

ParseChoices == {None, Some("parse_album")}

SessionChoices == {None, Some("session")}

NoMapCall ==
    [ pc |-> "idle", json_obj |-> EmptyDict, parse |-> None, session |-> None,
      result |-> MapResult("none", <<>>, <<>>, EmptyDict) ]

-----------------------------------------------------------------------------
(* The frame of one top-level call *)

IdleCall ==
    [ pc        |-> "idle",
      entry     |-> "none",
      method    |-> "GET",
      path      |-> ApiLocation,  \* the path argument of the innermost frame
      arg_path  |-> ApiLocation,  \* the path or url the caller gave
      params    |-> None,
      data      |-> None,
      headers   |-> None,       \* the headers argument of the innermost frame
      aliased   |-> FALSE,      \* that argument is the caller's own mapping
      caller_headers |-> None,  \* the caller's mapping, as it is now
      given_headers  |-> None,  \* the caller's mapping, as it was at the call
      depth     |-> 0,          \* frames of basic_request on the stack
      url       |-> ApiLocation,
      refresh_token |-> "",
      wire      |-> [method |-> "GET", url |-> ApiLocation, params |-> EmptyDict,
                     data |-> None, headers |-> EmptyDict],  \* the request in flight
      response  |-> Response(0, EmptyBody),
      sent      |-> <<>>,       \* requests handed to the transport, with the answers
      refreshes |-> <<>>,       \* results of token_refresh
      log       |-> <<>>,
      error     |-> "",
      parse     |-> None,       \* get_items: the parse argument
      remaining |-> 0,          \* get_items: remaining
      item_list |-> <<>> ]      \* get_items: item_list

Callers == DOMAIN call

Set(c, f) == call' = [call EXCEPT ![c] = f]

LogLine(level, msg, arg) == [level |-> level, msg |-> msg, arg |-> arg]

\* where control goes when the outermost basic_request returns
AfterBasic(entry) == IF entry = "basic_request" THEN "returned" ELSE "wrap"

InitWith(procs, limits, totals) ==
    /\ session \in [ session_id    : {"sid"},
                     country_code  : {"NO"},
                     token_type    : {"", "Bearer"},
                     access_token  : {1},
                     refresh_token : {"", "rt"},
                     item_limit    : limits,
                     api_location  : {ApiLocation} ]
    /\ call = [c \in procs |-> IdleCall]
    /\ catalog \in totals
    /\ mapped = NoMapCall

Init == InitWith({1}, {1000}, {0})

\* a caller invokes basic_request or request with arguments from the given sets
CallWith(c, methods, paths, paramss, datas, headerss) ==
    /\ call[c].pc = "idle"
    /\ \E entry \in {"basic_request", "request"}, method \in methods, path \in paths,
          params \in paramss, data \in datas, headers \in headerss :
          Set(c, [call[c] EXCEPT !.pc = "send", !.entry = entry, !.method = method,
                                 !.path = path, !.arg_path = path, !.params = params,
                                 !.data = data,
                                 !.headers = headers, !.aliased = (headers # None),
                                 !.caller_headers = headers, !.given_headers = headers,
                                 !.depth = 1])
    /\ UNCHANGED <<session, catalog, mapped>>

CallRequest(c) == CallWith(c, Methods, Paths, ParamChoices, DataChoices, HeaderChoices)

\* the page the server holds at offset, cut to limit: objects offset+1 ...
Page(total, offset, limit) ==
    LET n == IF total - offset < 0 THEN 0
             ELSE IF total - offset < limit THEN total - offset ELSE limit
    IN  [items |-> Some([i \in 1..n |-> [id |-> offset + i]])]

\* what the transport may answer to a page request carrying params rp
PageAnswers(rp) ==
    { Response(200, JsonBody(Page(catalog, rp["offset"].v, rp["limit"].v))),
      Response(200, JsonBody([totalNumberOfItems |-> catalog])),
      ExpiredResponse,
      Response(500, TextBody) }

\* what the transport may answer to the request of frame f carrying params rp
Answers(f, rp) == IF f.entry = "get_items" THEN PageAnswers(rp) ELSE Responses

\* lines 53-72: the request frame f builds from its arguments and the session
Built(f) ==
    [ method  |-> f.method,
      url     |-> urljoin(session.api_location, f.path),
      params  |-> RequestParams(session, f.params),
      data    |-> f.data,
      headers |-> RequestHeaders(session, f.headers) ]

\* lines 65-70 on the frame: headers is now the mapping hd; it is the caller's
\* own mapping when the caller passed a non-empty one
WithHeaders(f, hd) ==
    LET ali == f.aliased /\ Truthy(f.headers)
    IN  [f EXCEPT !.headers = Some(hd), !.aliased = ali,
                  !.caller_headers = IF ali THEN Some(hd) ELSE @]

\* lines 73-75: the transport has answered request req with resp
Answered(f, req, resp) ==
    [WithHeaders(f, req.headers) EXCEPT
        !.pc = "handle", !.url = req.url, !.response = resp,
        !.sent = Append(@, [method |-> req.method, url |-> req.url,
                            params |-> req.params, data |-> req.data,
                            headers |-> req.headers, response |-> resp])]

\* lines 53-75: build the request and hand it to the transport, which answers
Transmit(c) ==
    LET f == call[c]
    IN  /\ f.pc = "send"
        /\ \E resp \in Answers(f, Built(f).params) :
              Set(c, Answered(f, Built(f), resp))
        /\ UNCHANGED <<session, catalog, mapped>>

\* lines 77-96, up to the call of token_refresh
Handle(c) ==
    LET f == call[c]
        r == f.response
        refresh_token == session.refresh_token
    IN  /\ f.pc = "handle"
        /\ IF Ok(r) \/ refresh_token = ""
           THEN Set(c, [f EXCEPT !.pc = AfterBasic(f.entry)])
           ELSE IF IsExpiry(r)
           THEN Set(c, [f EXCEPT !.pc = "refresh", !.refresh_token = refresh_token,
                           !.log = Append(@, LogLine("debug",
                               "The access token has expired, trying to refresh it.", None))])
           ELSE Set(c, [f EXCEPT !.pc = AfterBasic(f.entry),
                           !.log = @ \o << LogLine("warning", "HTTP error on %d",
                                                   Some(r.status_code)),
                                           LogLine("debug", "Response text\n%s",
                                                   Some(r.body)) >>])
        /\ UNCHANGED <<session, catalog, mapped>>

\* the frame after "request = self.basic_request(method, url, params, data, headers)"
\* is entered: one frame deeper, path bound to the resolved url
RetryMutNever(f) == [f EXCEPT !.pc = AfterBasic(f.entry)]

Retry(f) ==
    IF f.depth >= MaxDepth
    THEN [f EXCEPT !.pc = "raised", !.error = "RecursionError"]
    ELSE [f EXCEPT !.pc = "send", !.depth = @ + 1, !.path = f.url]

\* lines 89-91: session.token_refresh(refresh_token), and the retry when it succeeded.
\* A successful refresh installs a new access token.
Refresh(c) ==
    LET f == call[c]
    IN  /\ f.pc = "refresh"
        /\ \E refreshed \in BOOLEAN :
              LET g == [f EXCEPT !.refreshes = Append(@, refreshed)]
              IN  /\ Set(c, IF refreshed THEN Retry(g)
                                         ELSE [g EXCEPT !.pc = AfterBasic(f.entry)])
                  /\ session' = IF refreshed
                                THEN [session EXCEPT !.access_token = @ + 1]
                                ELSE session
        /\ UNCHANGED <<catalog, mapped>>

\* request, lines 119-123: log the url, raise_for_status, log the body
WrapMutNoRaise(f) ==
    [f EXCEPT !.pc = IF f.entry = "get_items" THEN "map" ELSE "returned"]

Wrap(f) ==
    LET r  == f.response
        l1 == Append(f.log, LogLine("debug", "request: %s", Some(f.url)))
    IN  IF RaisesForStatus(r)
        THEN [f EXCEPT !.pc = "raised", !.error = "HTTPError", !.log = l1]
        ELSE IF HasContent(r) /\ ~Decodes(r)
        THEN [f EXCEPT !.pc = "raised", !.error = "JSONDecodeError", !.log = l1]
        ELSE [f EXCEPT !.pc = IF f.entry = "get_items" THEN "map" ELSE "returned",
                       !.log = IF HasContent(r)
                               THEN Append(l1, LogLine("debug", "response: %s", Some(r.body)))
                               ELSE l1]

RequestWrapper(c) ==
    /\ call[c].pc = "wrap"
    /\ Set(c, Wrap(call[c]))
    /\ UNCHANGED <<session, catalog, mapped>>

Next ==
    \/ \E c \in Callers : CallRequest(c)
    \/ \E c \in Callers : Transmit(c)
    \/ \E c \in Callers : Handle(c)
    \/ \E c \in Callers : Refresh(c)
    \/ \E c \in Callers : RequestWrapper(c)

Spec == Init /\ [][Next]_vars

-----------------------------------------------------------------------------
(* Callers on their own threads, sharing the session.  The transport call   *)
(* of lines 73-75 takes time: the request is built from the session first   *)
(* and answered later, and other callers run in between.  The server takes  *)
(* the token the latest refresh issued and no other; the token the session  *)
(* starts with has expired.                                                 *)

ServerAnswer(req) ==
    IF /\ "authorization" \in DOMAIN req.headers
       /\ req.headers["authorization"][3] = session.access_token
       /\ \E c \in Callers : \E i \in 1..Len(call[c].refreshes) : call[c].refreshes[i]
    THEN Response(200, JsonBody([id |-> 7]))
    ELSE ExpiredResponse

InitShared ==
    /\ InitWith({1, 2}, {1000}, {0})
    /\ session.token_type = "Bearer" /\ session.refresh_token = "rt"

CallShared(c) ==
    CallWith(c, {"GET"}, {[kind |-> "rel", host |-> "", segs |-> <<"tracks">>]},
             {None}, {None}, {None})

\* lines 53-72: the request is built
Build(c) ==
    LET f == call[c]
    IN  /\ f.pc = "send"
        /\ Set(c, [WithHeaders(f, Built(f).headers) EXCEPT !.pc = "wire",
                                                           !.wire = Built(f)])
        /\ UNCHANGED <<session, catalog, mapped>>

\* lines 73-75: the server answers the request in flight
Exchange(c) ==
    LET f == call[c]
    IN  /\ f.pc = "wire"
        /\ Set(c, Answered(f, f.wire, ServerAnswer(f.wire)))
        /\ UNCHANGED <<session, catalog, mapped>>

NextShared ==
    \/ \E c \in Callers : CallShared(c)
    \/ \E c \in Callers : Build(c)
    \/ \E c \in Callers : Exchange(c)
    \/ \E c \in Callers : Handle(c)
    \/ \E c \in Callers : Refresh(c)
    \/ \E c \in Callers : RequestWrapper(c)

SpecShared == InitShared /\ [][NextShared]_vars

-----------------------------------------------------------------------------
(* get_items, lines 195-203 *)

\* the page size of get_items
PageSize == 100

\* Bound: most items the server holds for the paged collection
MaxTotal == 201

\* lines 195-198: the cursor, the empty list, and the first turn of the loop
CallGetItems(c) ==
    /\ call[c].pc = "idle"
    /\ \E url \in Paths, parse \in {None, Some("parse_track"), Some("parse_nothing")} :
          Set(c, [call[c] EXCEPT !.pc = "send", !.entry = "get_items", !.method = "GET",
                                 !.path = url, !.arg_path = url,
                                 !.params = Some([offset |-> Some(0),
                                                  limit  |-> Some(PageSize)]),
                                 !.parse = parse, !.remaining = PageSize, !.depth = 1])
    /\ UNCHANGED <<session, catalog, mapped>>

\* lines 200-202 and the loop test of line 198, items being a page's parsed list
AfterPageMutUntilEmpty(f, items) ==
    [f EXCEPT !.remaining = Len(items),
              !.params = Some([@.v EXCEPT !["offset"] = Some(@.v + PageSize)]),
              !.item_list = @ \o items,
              !.pc = IF Len(items) > 0 THEN "send" ELSE "returned",
              !.path = f.arg_path, !.headers = None, !.aliased = FALSE, !.depth = 1]

AfterPageMutKeepFullPages(f, items) ==
    [f EXCEPT !.remaining = Len(items),
              !.params = Some([@.v EXCEPT !["offset"] = Some(@.v + PageSize)]),
              !.item_list = IF Len(items) = PageSize THEN @ \o items ELSE @,
              !.pc = IF Len(items) = PageSize THEN "send" ELSE "returned",
              !.path = f.arg_path, !.headers = None, !.aliased = FALSE, !.depth = 1]

AfterPage(f, items) ==
    [f EXCEPT !.remaining = Len(items),
              !.params = Some([@.v EXCEPT !["offset"] = Some(@.v + PageSize)]),
              !.item_list = @ \o items,
              !.pc = IF Len(items) = PageSize THEN "send" ELSE "returned",
              !.path = f.arg_path, !.headers = None, !.aliased = FALSE, !.depth = 1]

\* map_request, lines 142-144, on the response request returned, then the
\* rest of the loop body.  For a body without an items list map_json gives
\* the parser's single result, an object or None, and len() of it raises
\* TypeError (line 200, before "items or []").
MapPage(c) ==
    LET f == call[c]
        r == f.response
        m == MapJson(r.body.json, f.parse, None)
        raise(e) == [f EXCEPT !.pc = "raised", !.error = e]
    IN  /\ f.pc = "map"
        /\ Set(c, IF ~Decodes(r) THEN raise("JSONDecodeError")
                  ELSE IF m.status # "ok" THEN raise(m.status)
                  ELSE IF GetItems(r.body.json) = None THEN raise("TypeError")
                  ELSE AfterPage(f, m.value))
        /\ UNCHANGED <<session, catalog, mapped>>

InitItems ==
    /\ InitWith({1}, {50, 1000}, 0..MaxTotal)
    /\ session.token_type = "Bearer"

NextItems ==
    \/ \E c \in Callers : CallGetItems(c)
    \/ \E c \in Callers : Transmit(c)
    \/ \E c \in Callers : Handle(c)
    \/ \E c \in Callers : Refresh(c)
    \/ \E c \in Callers : RequestWrapper(c)
    \/ \E c \in Callers : MapPage(c)

SpecItems == InitItems /\ [][NextItems]_vars

-----------------------------------------------------------------------------
(* map_json called on its own *)

InitMap ==
    /\ InitWith({1}, {1000}, {0})
    /\ session.token_type = "Bearer" /\ session.refresh_token = "rt"

\* a caller hands map_json a decoded body, a parser and a session
CallMapJson ==
    /\ mapped.pc = "idle"
    /\ \E j \in JsonChoices, p \in ParseChoices, s \in SessionChoices :
          mapped' = [mapped EXCEPT !.pc = "called", !.json_obj = j, !.parse = p,
                                   !.session = s]
    /\ UNCHANGED <<session, call, catalog>>

\* map_json runs to its return or to the exception it raises
RunMapJson ==
    /\ mapped.pc = "called"
    /\ mapped' = [mapped EXCEPT !.pc = "done",
                      !.result = MapJson(mapped.json_obj, mapped.parse, mapped.session)]
    /\ UNCHANGED <<session, call, catalog>>

NextMap == CallMapJson \/ RunMapJson

SpecMap == InitMap /\ [][NextMap]_vars

-----------------------------------------------------------------------------
(* Vocabulary of the properties *)

\* the top-level call has ended
Done(f) == f.pc \in {"returned", "raised"}

\* the outermost basic_request has returned its response
BasicDone(f) ==
    \/ f.pc \in {"returned", "wrap", "map"}
    \/ f.pc = "raised" /\ f.error # "RecursionError"

\* the body carries a userMessage beginning with "The token has expired."
SaysExpired(r) ==
    /\ r.body.kind = "json"
    /\ "userMessage" \in DOMAIN r.body.json
    /\ StartsWith(r.body.json["userMessage"], ExpiredPrefix)

Failed(r) == r.status_code >= 400

\* a response whose body request() can log: no content, or JSON
Loggable(r) == r.body.kind \in {"json", "empty"}

Warned(f) == \E i \in 1..Len(f.log) : f.log[i].level = "warning"

Plain(f) == f.entry \in {"basic_request", "request"}

-----------------------------------------------------------------------------
(* C1: with a transport that always answers "The token has expired." and a  *)
(* token_refresh that always succeeds, one call invokes token_refresh       *)
(* exactly once and ends in a failure.                                      *)
C1_RefreshExactlyOnce ==
    \A c \in Callers :
        LET f == call[c]
        IN  ( /\ Plain(f)
              /\ session.refresh_token # ""
              /\ \A i \in 1..Len(f.sent) : SaysExpired(f.sent[i].response)
                                            /\ Failed(f.sent[i].response)
              /\ \A i \in 1..Len(f.refreshes) : f.refreshes[i] )
            => /\ Len(f.refreshes) <= 1
               /\ Done(f) => /\ Len(f.refreshes) = 1
                              /\ (f.pc = "raised" \/ Failed(f.response))

(* C2: with a transport that answers "The token has expired." once and then *)
(* succeeds, and a token_refresh that succeeds, the call ends with the      *)
(* successful response after exactly one token_refresh and exactly two      *)
(* transport calls.                                                         *)
C2_Hyp(f) ==
    /\ Plain(f)
    /\ session.refresh_token # ""
    /\ Len(f.sent) >= 1
    /\ SaysExpired(f.sent[1].response) /\ Failed(f.sent[1].response)
    /\ Len(f.sent) >= 2 => ~Failed(f.sent[2].response)
    /\ f.refreshes # <<>> /\ f.refreshes[1]

C2_ExpiredOnceThenSuccess ==
    \A c \in Callers :
        LET f == call[c]
        IN  C2_Hyp(f) =>
              /\ Len(f.sent) <= 2
              /\ f.refreshes = <<TRUE>>
              /\ f.error # "RecursionError"
              /\ BasicDone(f) => /\ Len(f.sent) = 2
                                  /\ f.response = f.sent[2].response
              /\ Done(f) => /\ f.error # "HTTPError"
                             /\ (f.entry = "basic_request" \/ Loggable(f.response))
                                    => f.pc = "returned"

C2_Witness ==
    \E c \in Callers :
        /\ C2_Hyp(call[c])
        /\ call[c].entry = "request"
        /\ call[c].pc = "returned"
        /\ Len(call[c].sent) = 2

(* C6: every transmitted request carries the base parameters sessionId,     *)
(* countryCode and limit = item_limit, overridden by exactly the caller's   *)
(* entries whose value is not None; a None entry is never transmitted and   *)
(* never removes or replaces a base parameter.                              *)
BaseKeys == {"sessionId", "countryCode", "limit"}

Overrides(params) ==
    IF params = None THEN {} ELSE {k \in DOMAIN params.v : params.v[k] # None}

C6_ParamsAre(rp, params) ==
    /\ DOMAIN rp = BaseKeys \cup Overrides(params)
    /\ \A k \in DOMAIN rp : rp[k] # None
    /\ \A k \in Overrides(params) : rp[k] = params.v[k]
    /\ "sessionId" \notin Overrides(params) => rp["sessionId"] = Some(session.session_id)
    /\ "countryCode" \notin Overrides(params) => rp["countryCode"] = Some(session.country_code)
    /\ "limit" \notin Overrides(params) => rp["limit"] = Some(session.item_limit)

C6_NoneNeverTransmitted ==
    \A c \in Callers :
        Plain(call[c]) =>
            \A i \in 1..Len(call[c].sent) :
                C6_ParamsAre(call[c].sent[i].params, call[c].params)

C6_Witness ==
    \E c \in Callers :
        LET f == call[c]
        IN  /\ Len(f.sent) = 2
            /\ f.params = Some([limit |-> None, filter |-> Some("ALL")])
            /\ f.sent[2].params["limit"] = Some(session.item_limit)

(* C7: request never returns a response that is not OK: when the response   *)
(* that basic_request hands back has status >= 400, request raises          *)
(* HTTPError, and a response it returns has status < 400.                   *)
C7_RequestRaisesOnFailure ==
    \A c \in Callers :
        LET f == call[c]
        IN  f.entry = "request" =>
              /\ f.pc = "returned" => f.response.status_code < 400
              /\ (Done(f) /\ f.error # "RecursionError"
                           /\ f.response.status_code >= 400)
                    => f.pc = "raised" /\ f.error = "HTTPError"

C7_Witness ==
    \E c \in Callers :
        LET f == call[c]
        IN  /\ f.entry = "request"
            /\ f.pc = "raised" /\ f.error = "HTTPError"
            /\ Len(f.sent) = 2
            /\ f.response.status_code >= 400

(* C8: when the response is not OK and the session has no refresh token,    *)
(* basic_request calls the transport once, never calls token_refresh, logs  *)
(* the failure and returns the failed response without raising.             *)
C8_NoRefreshTokenLogsAndReturns ==
    \A c \in Callers :
        LET f == call[c]
        IN  ( /\ Plain(f)
              /\ session.refresh_token = ""
              /\ BasicDone(f)
              /\ Failed(f.sent[1].response) )
            => /\ Len(f.sent) = 1
               /\ f.refreshes = <<>>
               /\ f.response = f.sent[1].response
               /\ f.entry = "basic_request" => f.pc = "returned"
               /\ Warned(f)

(* C9: when the response is not OK, a refresh token is configured, and      *)
(* either token_refresh returns false or the userMessage does not start     *)
(* with "The token has expired.", basic_request logs a warning, sends no    *)
(* second request and returns the failed response; token_refresh is not     *)
(* called when the message does not match.                                  *)
C9_FailedRefreshOrOtherErrorWarns ==
    \A c \in Callers :
        LET f == call[c]
        IN  ( /\ Plain(f)
              /\ session.refresh_token # ""
              /\ BasicDone(f)
              /\ Failed(f.sent[1].response)
              /\ \/ ~SaysExpired(f.sent[1].response)
                 \/ f.refreshes # <<>> /\ ~f.refreshes[1] )
            => /\ Len(f.sent) = 1
               /\ f.response = f.sent[1].response
               /\ ~SaysExpired(f.sent[1].response) => f.refreshes = <<>>
               /\ Warned(f)

(* C5: for every Shape-B envelope (every element wraps its object under   *)
(* "item") of N elements, map_json returns N parsed objects without error,  *)
(* and the object of element i carries dateAdded, equal to the element's    *)
(* "created", exactly when element i carries "created".                     *)
ShapeB(json_obj) ==
    /\ "items" \in DOMAIN json_obj
    /\ json_obj["items"] # None
    /\ Len(json_obj["items"].v) > 0
    /\ \A i \in 1..Len(json_obj["items"].v) :
          {"item", "type"} \subseteq DOMAIN json_obj["items"].v[i]

C5_CreatedHoistedPerElement ==
    ( /\ mapped.pc = "done"
      /\ ShapeB(mapped.json_obj)
      /\ mapped.parse # None \/ mapped.session # None )
    => LET items == mapped.json_obj["items"].v
           r     == mapped.result
       IN  /\ r.status = "ok"
           /\ Len(r.value) = Len(items)
           /\ \A i \in 1..Len(items) :
                 IF "created" \in DOMAIN items[i]
                 THEN /\ "dateAdded" \in DOMAIN r.value[i].of
                      /\ r.value[i].of["dateAdded"] = items[i]["created"]
                 ELSE "dateAdded" \notin DOMAIN r.value[i].of

(* C10: given a parser, map_json on a body without an "items" key invokes   *)
(* the parser exactly once, on the whole body, and returns that result; on  *)
(* a body whose "items" is an empty list it returns an empty result without *)
(* invoking the parser and without raising.                                 *)
C10_SingleObjectAndEmptyList ==
    (mapped.pc = "done" /\ mapped.parse # None) =>
        LET j == mapped.json_obj
            r == mapped.result
        IN  /\ "items" \notin DOMAIN j =>
                  /\ r.status = "ok"
                  /\ r.calls = <<Parsed(mapped.parse.v, j)>>
                  /\ r.value = Parsed(mapped.parse.v, j)
            /\ ("items" \in DOMAIN j /\ j["items"] = Some(<<>>)) =>
                  /\ r.status = "ok"
                  /\ r.value = <<>>
                  /\ r.calls = <<>>

C10_Witness ==
    /\ mapped.pc = "done"
    /\ mapped.parse # None
    /\ mapped.json_obj = [items |-> Some(<<>>)]
    /\ mapped.result.status = "ok"

(* C3: when the server answers every page request with a page (full pages *)
(* of 100 parsed items, then one page of k < 100), get_items sends exactly  *)
(* `pages` GET requests, the i-th with offset 100*(i-1) and limit 100       *)
(* whatever item_limit is, and none after the first short page.             *)
IsPage(r) == r.status_code = 200 /\ r.body.kind = "json" /\ "items" \in DOMAIN r.body.json

PageLen(r) == Len(r.body.json["items"].v)

OnlyPages(f) ==
    /\ f.entry = "get_items"
    /\ f.parse # None
    /\ \A i \in 1..Len(f.sent) : IsPage(f.sent[i].response)

C3_PagesRequested ==
    \A c \in Callers :
        LET f == call[c]
        IN  OnlyPages(f) =>
              /\ \A i \in 1..Len(f.sent) :
                    /\ f.sent[i].method = "GET"
                    /\ f.sent[i].params["offset"] = Some(PageSize * (i - 1))
                    /\ f.sent[i].params["limit"] = Some(PageSize)
                    /\ i < Len(f.sent) => PageLen(f.sent[i].response) = PageSize
              /\ f.pc # "raised"
              /\ f.pc = "returned" =>
                    /\ Len(f.sent) = (catalog \div PageSize) + 1
                    /\ PageLen(f.sent[Len(f.sent)].response) = catalog % PageSize

C3_Witness ==
    \E c \in Callers :
        /\ OnlyPages(call[c])
        /\ call[c].pc = "returned"
        /\ Len(call[c].sent) = 3
        /\ session.item_limit = 50

(* C4: for the same page sequences the list get_items returns is the       *)
(* concatenation of the parsed pages in request order, 100*(pages-1)+k      *)
(* elements long, nothing dropped and nothing twice.                        *)
RECURSIVE ParsedPages(_, _, _)
ParsedPages(sent, parse, i) ==
    IF i > Len(sent) THEN <<>>
    ELSE [k \in 1..PageLen(sent[i].response) |->
            Parsed(parse, sent[i].response.body.json["items"].v[k])]
         \o ParsedPages(sent, parse, i + 1)

C4_AllItemsInOrder ==
    \A c \in Callers :
        LET f == call[c]
            n == Len(f.sent)
        IN  (OnlyPages(f) /\ f.pc = "returned") =>
              /\ f.item_list = ParsedPages(f.sent, f.parse.v, 1)
              /\ Len(f.item_list) = PageSize * (n - 1) + PageLen(f.sent[n].response)
              /\ \A i \in 1..Len(f.item_list) :
                    f.item_list[i] = Parsed(f.parse.v, [id |-> i])
              /\ Len(f.item_list) = catalog

C4_Witness ==
    \E c \in Callers :
        /\ OnlyPages(call[c])
        /\ call[c].pc = "returned"
        /\ Len(call[c].sent) = 2
        /\ Len(call[c].item_list) = 137

(* C11: when a page request of get_items ends in a failure, request raises *)
(* and get_items passes the error on: no further page is requested, the     *)
(* page is not asked for again, and no partial list is returned.  A request *)
(* follows a failed answer only as the retry, inside request, of the same   *)
(* page after a token refresh.                                              *)
C11_PageFailureStops ==
    \A c \in Callers :
        LET f == call[c]
            n == Len(f.sent)
        IN  f.entry = "get_items" =>
              /\ f.pc \in {"map", "returned"} => ~Failed(f.response)
              /\ (f.pc = "send" /\ f.depth = 1 /\ n > 0) => ~Failed(f.sent[n].response)
              /\ (f.pc = "raised" /\ f.error = "HTTPError") =>
                    /\ Failed(f.sent[n].response)
                    /\ f.response = f.sent[n].response
              /\ \A i \in 1..(n - 1) :
                    Failed(f.sent[i].response) =>
                        /\ SaysExpired(f.sent[i].response)
                        /\ f.sent[i + 1].params = f.sent[i].params
              /\ f.pc = "returned" =>
                    Len(f.item_list) = PageSize * (f.params.v["offset"].v \div PageSize - 1)
                                         + f.remaining

C11_Witness ==
    \E c \in Callers :
        LET f == call[c]
        IN  /\ f.entry = "get_items"
            /\ f.pc = "raised" /\ f.error = "HTTPError"
            /\ Len(f.sent) = 2
            /\ Len(f.item_list) = PageSize
            /\ f.sent[2].params["offset"] = Some(PageSize)

(* C12: a response that is not OK and whose body is empty or not JSON, with *)
(* a refresh token configured, does not make basic_request raise, refresh   *)
(* or retry: a warning is logged and the failed response is returned.       *)
C12_Hyp(f) ==
    /\ Plain(f)
    /\ session.refresh_token # ""
    /\ Len(f.sent) >= 1
    /\ Failed(f.sent[1].response)
    /\ f.sent[1].response.body.kind \in {"text", "empty"}

C12_UndecodableBodyWarns ==
    \A c \in Callers :
        LET f == call[c]
        IN  C12_Hyp(f) =>
              /\ Len(f.sent) = 1
              /\ f.refreshes = <<>>
              /\ f.pc \notin {"refresh", "send"}
              /\ f.pc # "handle" => /\ Warned(f)
                                     /\ f.response = f.sent[1].response
              /\ f.pc = "raised" => f.entry = "request" /\ f.error = "HTTPError"
              /\ (Done(f) /\ f.entry = "basic_request") => f.pc = "returned"

C12_Witness ==
    \E c \in Callers :
        /\ C12_Hyp(call[c])
        /\ call[c].entry = "basic_request"
        /\ call[c].pc = "returned"
        /\ call[c].response.body.kind = "empty"

(* C13: with two callers sharing the session and the server taking only    *)
(* the latest token, in every interleaving each call invokes token_refresh  *)
(* at most once and sends at most two requests; a second failure after its  *)
(* refresh is returned, not retried.                                        *)
C13_RetryBoundPerCall ==
    \A c \in Callers :
        /\ Len(call[c].refreshes) <= 1
        /\ Len(call[c].sent) <= 2
        /\ call[c].error # "RecursionError"

(* C14: every transmitted request, the retry after a refresh included,     *)
(* carries authorization = "<token_type> <access_token>" with the token the *)
(* session holds at that transmission; when token_type is unset, no         *)
(* authorization header is transmitted.                                     *)
\* With one caller the session holds token i at the i-th transmission: it
\* starts with token 1 and every retry follows one successful refresh.
GivenHeaders(f) == IF f.given_headers = None THEN EmptyDict ELSE f.given_headers.v

C14_AuthorizationOrNone ==
    \A c \in Callers :
        LET f == call[c]
        IN  Plain(f) =>
              \A i \in 1..Len(f.sent) :
                  LET h == f.sent[i].headers
                  IN  IF session.token_type # ""
                      THEN /\ "authorization" \in DOMAIN h
                           /\ h["authorization"] = <<session.token_type, " ", i>>
                      ELSE "authorization" \notin DOMAIN h

(* C14 as amended: with token_type set, every transmitted request carries   *)
(* the caller's headers with authorization set to "<token_type>             *)
(* <access_token>" of that transmission; with token_type unset,             *)
(* basic_request adds no authorization header and transmits the caller's    *)
(* headers as given, an authorization header of the caller's included.      *)
C14_AuthorizationSetFresh ==
    \A c \in Callers :
        LET f == call[c]
            g == GivenHeaders(f)
        IN  Plain(f) =>
              \A i \in 1..Len(f.sent) :
                  LET h == f.sent[i].headers
                  IN  IF session.token_type # ""
                      THEN /\ DOMAIN h = DOMAIN g \cup {"authorization"}
                           /\ h["authorization"] = <<session.token_type, " ", i>>
                           /\ \A k \in DOMAIN g \ {"authorization"} : h[k] = g[k]
                      ELSE h = g

C14_Witness ==
    \E c \in Callers :
        LET f == call[c]
        IN  /\ Len(f.sent) = 2
            /\ f.given_headers = Some([authorization |-> <<"Bearer", " ", 0>>])
            /\ session.token_type = "Bearer"
            /\ f.sent[2].headers["authorization"] = <<"Bearer", " ", 2>>

(* C15: in get_items a page whose parsed result is empty or None counts as *)
(* zero items: it adds nothing, ends the loop, and get_items returns what   *)
(* it has gathered without raising.                                         *)
FalsyPage(f) ==
    LET r == f.response
    IN  /\ f.entry = "get_items"
        /\ f.parse # None
        /\ ~Failed(r) /\ r.body.kind = "json"
        /\ \/ "items" \in DOMAIN r.body.json /\ r.body.json["items"] = Some(<<>>)
           \/ "items" \notin DOMAIN r.body.json /\ f.parse.v = "parse_nothing"

C15_FalsyPageEndsLoop ==
    \A c \in Callers :
        LET f == call[c]
        IN  (Done(f) /\ FalsyPage(f)) =>
              /\ f.pc = "returned"
              /\ f.remaining = 0
              /\ Len(f.item_list) = f.params.v["offset"].v - PageSize

ShapeA(json_obj) ==
    /\ "items" \in DOMAIN json_obj
    /\ json_obj["items"] # None
    /\ \A i \in 1..Len(json_obj["items"].v) :
          "item" \notin DOMAIN json_obj["items"].v[i]

ParserOf(item, parse, sess) ==
    IF sess # None THEN ConvertType(LowerPlural(item["type"])) ELSE parse.v

IsParseOf(result, parser, obj) ==
    /\ result.parser = parser
    /\ \A k \in DOMAIN obj : k \in DOMAIN result.of /\ result.of[k] = obj[k]

C17_OneResultPerElementInOrder ==
    (mapped.pc = "done") =>
        LET j == mapped.json_obj
            r == mapped.result
        IN  /\ (ShapeB(j) /\ (mapped.parse # None \/ mapped.session # None)) =>
                  /\ r.status = "ok"
                  /\ Len(r.value) = Len(j["items"].v)
                  /\ \A i \in 1..Len(j["items"].v) :
                        IsParseOf(r.value[i],
                                  ParserOf(j["items"].v[i], mapped.parse, mapped.session),
                                  j["items"].v[i]["item"])
            /\ (ShapeA(j) /\ mapped.parse # None) =>
                  /\ r.status = "ok"
                  /\ r.value = [i \in 1..Len(j["items"].v) |->
                                  Parsed(mapped.parse.v, j["items"].v[i])]

(* C18: a call does not modify its request context: once basic_request has *)
(* returned, with or without a refresh and retry, the headers mapping the   *)
(* caller supplied holds exactly the entries it held at the call.  (The     *)
(* params mapping is only read, lines 59-63: no step of the model writes    *)
(* it.)                                                                     *)
C18_CallerHeadersUntouched ==
    \A c \in Callers :
        LET f == call[c]
        IN  BasicDone(f) => f.caller_headers = f.given_headers

(* C19: the retry issued after a successful refresh is the identical       *)
(* request: same resolved URL, same method, same transmitted query          *)
(* parameters and same body as the first attempt; of the headers only       *)
(* authorization may differ.                                                *)
SameRequest(a, b) ==
    /\ a.url = b.url
    /\ a.method = b.method
    /\ a.params = b.params
    /\ a.data = b.data
    /\ DOMAIN a.headers = DOMAIN b.headers
    /\ \A k \in DOMAIN a.headers \ {"authorization"} : a.headers[k] = b.headers[k]

C19_RetryIsSameRequest ==
    \A c \in Callers :
        LET f == call[c]
        IN  \A i \in 2..Len(f.sent) : SameRequest(f.sent[i], f.sent[1])

C19_Witness ==
    \E c \in Callers :
        LET f == call[c]
        IN  /\ Len(f.sent) = 2
            /\ f.refreshes = <<TRUE>>
            /\ f.arg_path.kind = "rel"
            /\ f.data # None
            /\ f.params # None /\ Truthy(f.params)
            /\ f.sent[2].url = urljoin(session.api_location, f.arg_path)

(* C20: with no parser and no session, map_json on a Shape-C body or on a  *)
(* non-empty items list raises ValueError ("A parser must be supplied")     *)
(* and returns no data; it raises that error only where a parser would have *)
(* to be invoked, and leaves the input JSON unmodified when it raises.      *)
NeedsParser(json_obj) ==
    \/ "items" \notin DOMAIN json_obj
    \/ json_obj["items"] = None
    \/ Len(json_obj["items"].v) > 0

C20_ParserErrorOnlyWhenNeeded ==
    (mapped.pc = "done" /\ mapped.parse = None /\ mapped.session = None) =>
        LET j == mapped.json_obj
            r == mapped.result
        IN  /\ NeedsParser(j) => (r.status = "ValueError" /\ r.value = <<>>)
            /\ r.status = "ValueError" => NeedsParser(j)
            /\ r.status = "ValueError" => r.json = j

====
